---- MODULE Spec2Model ----
(***************************************************************************)
(* A model of the EGRET regular-expression scanner (src/Scanner.cpp).      *)
(*                                                                         *)
(* Scanner::init turns a pattern string into a vector of tokens; the       *)
(* cursor API (get_type, advance, get_character, get_repeat_lower,         *)
(* get_repeat_upper) and the two lookahead predicates (is_concat,          *)
(* is_char_range) then read that vector through the member `index`.        *)
(*                                                                         *)
(* Characters are their ASCII codes, strings are sequences of codes, and   *)
(* positions are 0-based as in the source: the character in[i] of the      *)
(* source is At(in, i) here, the token tokens[i] is tokens[i + 1].         *)
(***************************************************************************)
EXTENDS Integers, Sequences, FiniteSets, TLC

VARIABLES
    input,      \* the pattern handed to Scanner::init (parameter `in`)
    idx,        \* local `idx` of Scanner::init
    in_set,     \* local `in_set` of Scanner::init
    tokens,     \* member `tokens`
    warnings,   \* the messages handed to addWarning, in order
    pc,         \* "scan", "done", "error" (EgretException left init),
                \* "thrown" (EgretException left a cursor call),
                \* "abort" (an assert failed)
    err,        \* the message of the EgretException, "" when none
    index,      \* member `index`, the cursor
    ret         \* what the last call of the cursor API returned

vars == <<input, idx, in_set, tokens, warnings, pc, err, index, ret>>

----------------------------------------------------------------------------
(* Characters *)

\* The ASCII code of each character the scanner names or the patterns use.
Ord ==
    (" " :> 32) @@ ("!" :> 33) @@ ("\"" :> 34) @@ ("#" :> 35) @@ ("$" :> 36) @@
    ("'" :> 39) @@ ("(" :> 40) @@ (")" :> 41) @@ ("*" :> 42) @@ ("+" :> 43) @@
    ("," :> 44) @@ ("-" :> 45) @@ ("." :> 46) @@
    ("0" :> 48) @@ ("1" :> 49) @@ ("2" :> 50) @@ ("3" :> 51) @@ ("4" :> 52) @@
    ("5" :> 53) @@ ("6" :> 54) @@ ("7" :> 55) @@ ("8" :> 56) @@ ("9" :> 57) @@
    (":" :> 58) @@ ("<" :> 60) @@ ("=" :> 61) @@ (">" :> 62) @@ ("?" :> 63) @@
    ("A" :> 65) @@ ("B" :> 66) @@ ("D" :> 68) @@ ("E" :> 69) @@ ("F" :> 70) @@
    ("P" :> 80) @@
    ("S" :> 83) @@ ("U" :> 85) @@ ("W" :> 87) @@ ("Z" :> 90) @@
    ("[" :> 91) @@ ("\\" :> 92) @@ ("]" :> 93) @@ ("^" :> 94) @@
    ("a" :> 97) @@ ("b" :> 98) @@ ("d" :> 100) @@ ("e" :> 101) @@ ("f" :> 102) @@
    ("n" :> 110) @@
    ("p" :> 112) @@ ("r" :> 114) @@ ("s" :> 115) @@ ("t" :> 116) @@ ("u" :> 117) @@
    ("v" :> 118) @@ ("w" :> 119) @@ ("x" :> 120) @@ ("z" :> 122) @@
    ("{" :> 123) @@ ("|" :> 124) @@ ("}" :> 125)

\* A string literal: the sequence of the codes of its characters.
Str(s) == [i \in 1..Len(s) |-> Ord[s[i]]]

\* in[i] and in.length() of a std::string.
At(in, i) == in[i + 1]
Length(in) == Len(in)

\* isdigit(c) in the "C" locale.
isdigit(c) == Ord["0"] <= c /\ c <= Ord["9"]

----------------------------------------------------------------------------
(* Tokens *)

\* enum TokenType, as Scanner::token_type_to_str lists it.
TokenType ==
    {"ALTERNATION", "STAR", "PLUS", "QUESTION", "REPEAT", "LEFT_PAREN",
     "RIGHT_PAREN", "CHARACTER", "CHAR_CLASS", "LEFT_BRACKET", "RIGHT_BRACKET",
     "CARET", "DOLLAR", "WORD_BOUNDARY", "HYPHEN", "NO_GROUP_EXT",
     "NAMED_GROUP_EXT", "IGNORED_EXT", "ERR"}

\* The value of a Token field no statement has assigned (`Token token;`).
\* No operation of the scanner reads a field in that state.
Uninit == -2

\* `Token token;` followed by the assignment of the type alone.
Tok(type) ==
    [type |-> type, character |-> Uninit,
     repeat_lower |-> Uninit, repeat_upper |-> Uninit]

\* `token.type = type; token.character = c;` on a fresh Token.
CharTok(type, c) == [Tok(type) EXCEPT !.character = c]

\* What one call of a sub-processor hands back to Scanner::init: the token,
\* the value it leaves in `idx`, the warnings it added and, when it threw,
\* the exception's message.
Returned(token, i, warn) == [err |-> "", token |-> token, idx |-> i, warn |-> warn]
Thrown(msg) == [err |-> msg, token |-> Tok("ERR"), idx |-> 0, warn |-> <<>>]

ERR_PREMATURE == "ERROR: Input string ended prematurely"

----------------------------------------------------------------------------
(* Scanner::get_next_char *)

\* get_next_char with the end test one too late (idx > in.length()): at the
\* end of the input it hands out the terminating '\0' of the string.
get_next_charLate(in, i) ==
    IF i + 1 > Length(in)
    THEN [ended |-> TRUE, c |-> 0, idx |-> i + 1]
    ELSE IF i + 1 = Length(in)
    THEN [ended |-> FALSE, c |-> 0, idx |-> i + 1]
    ELSE [ended |-> FALSE, c |-> At(in, i + 1), idx |-> i + 1]

\* idx++; throw when idx >= in.length(); otherwise in[idx].  `ended` tells
\* that the exception was thrown; `idx` is the incremented index.
get_next_char(in, i) ==
    IF i + 1 >= Length(in)
    THEN [ended |-> TRUE, c |-> 0, idx |-> i + 1]
    ELSE [ended |-> FALSE, c |-> At(in, i + 1), idx |-> i + 1]

----------------------------------------------------------------------------
(* Scanner::process_repeat *)

\* The largest value of `int`: what `ss >> token.repeat_lower` stores when the
\* digits denote a larger number.
INT_MAX == 2147483647

\* `stringstream ss(count_str); ss >> n;` on a non-empty string of digits:
\* the decimal value, INT_MAX when it does not fit an int.
RECURSIVE DecimalFrom(_, _, _)
DecimalFrom(count_str, k, acc) ==
    IF k > Len(count_str) THEN acc
    ELSE LET d == count_str[k] - Ord["0"]
         IN IF acc > (INT_MAX - d) \div 10
            THEN INT_MAX
            ELSE DecimalFrom(count_str, k + 1, acc * 10 + d)

ParseCount(count_str) == DecimalFrom(count_str, 1, 0)

\* c = get_next_char(in, idx); while (isdigit(c)) { count_str += c;
\* c = get_next_char(in, idx); }  The result holds the stopping character c,
\* the index of c and the digits read, or `ended` when get_next_char threw.
RECURSIVE DigitRun(_, _, _)
DigitRun(in, i, count_str) ==
    LET n == get_next_char(in, i)
    IN IF n.ended THEN [ended |-> TRUE, c |-> 0, idx |-> n.idx, count_str |-> count_str]
       ELSE IF isdigit(n.c) THEN DigitRun(in, n.idx, Append(count_str, n.c))
       ELSE [ended |-> FALSE, c |-> n.c, idx |-> n.idx, count_str |-> count_str]

\* AdjustLower left out: the -1 of a missing lower bound stays.
AdjustLowerMissing(token) == token

\* if (token.repeat_lower == -1) token.repeat_lower = 0;
AdjustLower(token) ==
    IF token.repeat_lower = -1 THEN [token EXCEPT !.repeat_lower = 0] ELSE token

\* The second half of process_repeat: the text after the comma.  `token` holds
\* the lower bound, `current_idx` the index of the opening brace.
RepeatAfterComma(in, i, current_idx, token) ==
    LET run == DigitRun(in, i, <<>>)
        upper == IF run.count_str = <<>> THEN -1 ELSE ParseCount(run.count_str)
        tok1 == [token EXCEPT !.repeat_upper = upper]
        tok2 == AdjustLower(tok1)
    IN IF run.ended THEN Thrown(ERR_PREMATURE)
       ELSE IF run.c = Ord["}"] THEN
            IF tok1.repeat_lower = -1 /\ tok1.repeat_upper = -1
            THEN Returned(tok1, current_idx, <<>>)
            ELSE IF tok2.repeat_upper = -1
            THEN Returned([tok2 EXCEPT !.type = "REPEAT"], run.idx, <<>>)
            ELSE IF tok2.repeat_lower > tok2.repeat_upper
            THEN Thrown("ERROR: Invalid repeat quantifier: lower bound is greater than upper bound")
            ELSE IF tok2.repeat_upper = 0
            THEN Thrown("ERROR: pointless repeat quantifier {0,0}")
            ELSE Returned([tok2 EXCEPT !.type = "REPEAT"], run.idx, <<>>)
       ELSE Returned(token, current_idx, <<>>)

\* Scanner::process_repeat(in, idx), called with idx at the opening brace.
process_repeat(in, i) ==
    LET current_idx == i
        token == CharTok("CHARACTER", Ord["{"])
        run == DigitRun(in, i, <<>>)
    IN IF run.ended THEN Thrown(ERR_PREMATURE)
       ELSE IF run.c = Ord[","] THEN
            RepeatAfterComma(in, run.idx, current_idx,
                [token EXCEPT !.repeat_lower =
                    IF run.count_str = <<>> THEN -1 ELSE ParseCount(run.count_str)])
       ELSE IF run.c = Ord["}"] THEN
            IF run.count_str = <<>>
            THEN Returned(token, current_idx, <<>>)
            ELSE LET n == ParseCount(run.count_str)
                 IN IF n = 0
                    THEN Thrown("ERROR: pointless repeat quantifier {0}")
                    ELSE Returned([token EXCEPT !.repeat_lower = n,
                                                !.repeat_upper = n,
                                                !.type = "REPEAT"], run.idx, <<>>)
       ELSE Returned(token, current_idx, <<>>)

----------------------------------------------------------------------------
(* Scanner::process_octal and Scanner::process_hex *)

isoctal(c) == Ord["0"] <= c /\ c <= Ord["7"]

\* Scanner::process_octal(in, idx, first_digit), idx at the first digit.
process_octal(in, i, first_digit) ==
    LET only_one_digit ==
            IF i + 1 >= Length(in) THEN TRUE ELSE ~isoctal(At(in, i + 1))
        second_digit == At(in, i + 1)
        has_three_digits == i + 2 < Length(in) /\ isoctal(At(in, i + 2))
        third_digit == At(in, i + 2)
        octal_value ==
            IF has_three_digits
            THEN (first_digit - Ord["0"]) * 64 + (second_digit - Ord["0"]) * 8
                     + (third_digit - Ord["0"])
            ELSE (first_digit - Ord["0"]) * 8 + (second_digit - Ord["0"])
    IN IF only_one_digit THEN
            IF first_digit = Ord["0"]
            THEN Thrown("ERROR: contains unsupported character \\0")
            ELSE Thrown("ERROR: contains unsupported backreference value")
       ELSE IF octal_value < 32 \/ octal_value > 126
       THEN Thrown("ERROR: contains unsupported octal value")
       ELSE Returned(CharTok("CHARACTER", octal_value),
                     IF has_three_digits THEN i + 2 ELSE i + 1, <<>>)

\* HexDigit without the + 10 of the upper-case letters.
HexDigitNoTen(c) ==
    IF Ord["0"] <= c /\ c <= Ord["9"] THEN c - Ord["0"]
    ELSE IF Ord["A"] <= c /\ c <= Ord["F"] THEN c - Ord["A"]
    ELSE IF Ord["a"] <= c /\ c <= Ord["f"] THEN c - Ord["a"] + 10
    ELSE -1

\* The value of one hex digit, -1 when c is not a hex digit.
HexDigit(c) ==
    IF Ord["0"] <= c /\ c <= Ord["9"] THEN c - Ord["0"]
    ELSE IF Ord["A"] <= c /\ c <= Ord["F"] THEN c - Ord["A"] + 10
    ELSE IF Ord["a"] <= c /\ c <= Ord["f"] THEN c - Ord["a"] + 10
    ELSE -1

\* for (int i = 2; i < num_digits; i++) { d = get_next_char(in, idx); ... }
\* `left` is the number of iterations still to run.
RECURSIVE HexLeadingZeros(_, _, _)
HexLeadingZeros(in, i, left) ==
    IF left = 0 THEN [err |-> "", idx |-> i]
    ELSE LET n == get_next_char(in, i)
         IN IF n.ended THEN [err |-> ERR_PREMATURE, idx |-> n.idx]
            ELSE IF n.c # Ord["0"]
            THEN [err |-> "ERROR: Unsupported hex number", idx |-> n.idx]
            ELSE HexLeadingZeros(in, n.idx, left - 1)

\* Scanner::process_hex(in, idx, num_digits), idx at the x, u or U.
process_hex(in, i, num_digits) ==
    LET lead == HexLeadingZeros(in, i, num_digits - 2)
        first == get_next_char(in, lead.idx)
        second == get_next_char(in, first.idx)
        hex_value == HexDigit(first.c) * 16 + HexDigit(second.c)
    IN IF lead.err # "" THEN Thrown(lead.err)
       ELSE IF first.ended \/ second.ended THEN Thrown(ERR_PREMATURE)
       ELSE IF HexDigit(first.c) = -1 \/ HexDigit(second.c) = -1
       THEN Thrown("ERROR: Invalid hex digit")
       ELSE IF hex_value < 32 \/ hex_value > 126
       THEN Thrown("ERROR: contains unsupported hex value")
       ELSE Returned(CharTok("CHARACTER", hex_value), second.idx, <<>>)

----------------------------------------------------------------------------
(* Scanner::process_extension *)

\* NameEnd that stops in front of the '>': the '>' is left to the main loop.
RECURSIVE NameEndBefore(_, _)
NameEndBefore(in, i) ==
    LET n == get_next_char(in, i)
    IN IF n.ended THEN [ended |-> TRUE, idx |-> n.idx]
       ELSE IF n.c = Ord[">"] THEN [ended |-> FALSE, idx |-> n.idx - 1]
       ELSE NameEndBefore(in, n.idx)

\* while (c != '>') c = get_next_char(in, idx);  entered with c = '<' at i.
RECURSIVE NameEnd(_, _)
NameEnd(in, i) ==
    LET n == get_next_char(in, i)
    IN IF n.ended THEN [ended |-> TRUE, idx |-> n.idx]
       ELSE IF n.c = Ord[">"] THEN [ended |-> FALSE, idx |-> n.idx]
       ELSE NameEnd(in, n.idx)

\* Scanner::process_extension(in, idx), idx at the question mark.
process_extension(in, i) ==
    LET e == get_next_char(in, i)
        n == get_next_char(in, e.idx)
    IN IF e.ended THEN Thrown(ERR_PREMATURE)
       ELSE IF e.c = Ord[":"] THEN Returned(Tok("NO_GROUP_EXT"), e.idx, <<>>)
       ELSE IF e.c = Ord["P"] THEN
            IF n.ended THEN Thrown(ERR_PREMATURE)
            ELSE IF n.c = Ord["="]
            THEN Thrown("ERROR: Unsupported named backreference: (?P=")
            ELSE IF n.c # Ord["<"]
            THEN Thrown("ERROR: Improperly specified named group - expected < after (?P")
            ELSE LET g == NameEnd(in, n.idx)
                 IN IF g.ended THEN Thrown(ERR_PREMATURE)
                    ELSE Returned(Tok("NAMED_GROUP_EXT"), g.idx, <<>>)
       ELSE IF e.c \in {Ord["#"], Ord["="], Ord["!"]}
       THEN Returned(Tok("IGNORED_EXT"), e.idx,
                     << <<"Regex contains ignored extension ?", e.c>> >>)
       ELSE IF e.c = Ord["<"] THEN
            IF n.ended THEN Thrown(ERR_PREMATURE)
            ELSE IF n.c = Ord["="] \/ n.c = Ord["!"]
            THEN Returned(Tok("IGNORED_EXT"), n.idx,
                          << <<"Regex contains ignored extension ?<", n.c>> >>)
            ELSE Thrown("ERROR: Unsupported extension ?<")
       ELSE Thrown("ERROR: Unsupported extension ?")

----------------------------------------------------------------------------
(* Scanner::init *)

\* case '\\' of the switch: the character after the backslash decides.
Escape(in, i, inset) ==
    LET n == get_next_char(in, i)
        c == n.c
    IN IF n.ended THEN Thrown(ERR_PREMATURE)
       ELSE IF c \in {Ord["d"], Ord["D"], Ord["w"], Ord["W"], Ord["s"], Ord["S"]}
       THEN Returned(CharTok("CHAR_CLASS", c), n.idx, <<>>)
       ELSE IF c = Ord["A"] THEN Returned(Tok("CARET"), n.idx, <<>>)
       ELSE IF c = Ord["Z"] THEN Returned(Tok("DOLLAR"), n.idx, <<>>)
       ELSE IF c = Ord["b"] THEN
            IF inset
            THEN Thrown("ERROR: contains unsupported character \\b")
            ELSE Returned(Tok("WORD_BOUNDARY"), n.idx,
                          << <<"Regex contains ignored \\", c>> >>)
       ELSE IF c = Ord["B"]
       THEN Returned(Tok("WORD_BOUNDARY"), n.idx,
                     << <<"Regex contains ignored \\", c>> >>)
       ELSE IF c \in {Ord["a"], Ord["f"], Ord["n"], Ord["r"], Ord["t"], Ord["v"],
                      Ord["p"]}
       THEN Thrown("ERROR: contains unsupported character")
       ELSE IF c \in {Ord["\\"], Ord["'"], Ord["\""]}
       THEN Returned(CharTok("CHARACTER", c), n.idx, <<>>)
       ELSE IF isdigit(c) THEN process_octal(in, n.idx, c)
       ELSE IF c = Ord["x"] THEN process_hex(in, n.idx, 2)
       ELSE IF c = Ord["u"] THEN process_hex(in, n.idx, 4)
       ELSE IF c = Ord["U"] THEN process_hex(in, n.idx, 8)
       ELSE Returned(CharTok("CHARACTER", c), n.idx, <<>>)

\* BackIs without the test of the type of the last token.
BackIsAny(toks, type) == Len(toks) > 0

\* tokens.size() > 0 && tokens.back().type == type
BackIs(toks, type) == Len(toks) > 0 /\ toks[Len(toks)].type = type

\* NextIs with the bound one too far: the last character of the input is
\* never looked at.
NextIsShort(in, i, c) == i + 2 < Length(in) /\ At(in, i + 1) = c

\* (idx + 1) < in.length() && in[idx + 1] == c
NextIs(in, i, c) == i + 1 < Length(in) /\ At(in, i + 1) = c

\* Brace without the test of the token type: a '?' is skipped after a
\* CHARACTER '{' as well.
BraceAlwaysLazy(in, i) ==
    LET r == process_repeat(in, i)
    IN IF r.err # "" THEN r
       ELSE IF NextIs(in, r.idx, Ord["?"])
       THEN [r EXCEPT !.idx = r.idx + 1]
       ELSE r

\* case '{' of the switch, outside a set: process_repeat and the skip of a
\* lazy '?' after a token that is not CHARACTER.
Brace(in, i) ==
    LET r == process_repeat(in, i)
    IN IF r.err # "" THEN r
       ELSE IF r.token.type # "CHARACTER" /\ NextIs(in, r.idx, Ord["?"])
       THEN [r EXCEPT !.idx = r.idx + 1]
       ELSE r

\* Literal with the assignments of the '.' case pasted in: the type is wrong.
LiteralAsClass(in, i) == Returned(CharTok("CHAR_CLASS", At(in, i)), i, <<>>)

\* token.type = CHARACTER; token.character = in[idx];
Literal(in, i) == Returned(CharTok("CHARACTER", At(in, i)), i, <<>>)

\* The body of the while loop up to `tokens.push_back(token)`: the token of
\* this iteration, the value of idx before the final idx++, the new in_set.
Dispatch(in, i, inset, toks) ==
    LET c == At(in, i)
        lit == Literal(in, i)
        plain(r) == [err |-> r.err, token |-> r.token, idx |-> r.idx,
                     warn |-> r.warn, in_set |-> inset]
        lazy(type) == IF NextIs(in, i, Ord["?"])
                      THEN Returned(Tok(type), i + 1, <<>>)
                      ELSE Returned(Tok(type), i, <<>>)
    IN IF c = Ord["\\"] THEN plain(Escape(in, i, inset))
       ELSE IF c = Ord["["] THEN
            IF inset THEN plain(lit)
            ELSE [plain(Returned(Tok("LEFT_BRACKET"), i, <<>>)) EXCEPT !.in_set = TRUE]
       ELSE IF c = Ord["]"] THEN
            IF inset /\ BackIs(toks, "LEFT_BRACKET") THEN plain(lit)
            ELSE IF inset
            THEN [plain(Returned(Tok("RIGHT_BRACKET"), i, <<>>)) EXCEPT !.in_set = FALSE]
            ELSE plain(lit)
       ELSE IF c = Ord["-"] THEN
            IF inset /\ BackIs(toks, "LEFT_BRACKET") THEN plain(lit)
            ELSE IF inset /\ NextIs(in, i, Ord["]"]) THEN plain(lit)
            ELSE IF inset THEN plain(Returned(Tok("HYPHEN"), i, <<>>))
            ELSE plain(lit)
       ELSE IF c = Ord["|"] THEN
            IF inset THEN plain(lit)
            ELSE plain(Returned(Tok("ALTERNATION"), i, <<>>))
       ELSE IF c = Ord["*"] THEN
            IF inset THEN plain(lit) ELSE plain(lazy("STAR"))
       ELSE IF c = Ord["+"] THEN
            IF inset THEN plain(lit) ELSE plain(lazy("PLUS"))
       ELSE IF c = Ord["?"] THEN
            IF BackIs(toks, "LEFT_PAREN") THEN plain(process_extension(in, i))
            ELSE IF inset THEN plain(lit)
            ELSE plain(lazy("QUESTION"))
       ELSE IF c = Ord["("] THEN
            IF inset THEN plain(lit)
            ELSE plain(Returned(Tok("LEFT_PAREN"), i, <<>>))
       ELSE IF c = Ord[")"] THEN
            IF inset THEN plain(lit)
            ELSE plain(Returned(Tok("RIGHT_PAREN"), i, <<>>))
       ELSE IF c = Ord["."] THEN
            IF inset THEN plain(lit)
            ELSE plain(Returned(CharTok("CHAR_CLASS", c), i, <<>>))
       ELSE IF c = Ord["{"] THEN
            IF inset THEN plain(lit) ELSE plain(Brace(in, i))
       ELSE IF c = Ord["^"] THEN plain(Returned(Tok("CARET"), i, <<>>))
       ELSE IF c = Ord["$"] THEN plain(Returned(Tok("DOLLAR"), i, <<>>))
       ELSE plain(lit)

\* ScanStep without the idx++ that ends the iteration.
ScanStepStays ==
    /\ pc = "scan"
    /\ idx < Length(input)
    /\ LET r == Dispatch(input, idx, in_set, tokens)
       IN IF r.err # ""
          THEN /\ pc' = "error"
               /\ err' = r.err
               /\ UNCHANGED <<idx, in_set, tokens, warnings>>
          ELSE /\ tokens' = Append(tokens, r.token)
               /\ idx' = r.idx
               /\ in_set' = r.in_set
               /\ warnings' = warnings \o r.warn
               /\ UNCHANGED <<pc, err>>
    /\ UNCHANGED <<input, index, ret>>

\* One iteration of the while loop of Scanner::init: the switch, then
\* tokens.push_back(token); idx++.  An EgretException ends the scan.
ScanStep ==
    /\ pc = "scan"
    /\ idx < Length(input)
    /\ LET r == Dispatch(input, idx, in_set, tokens)
       IN IF r.err # ""
          THEN /\ pc' = "error"
               /\ err' = r.err
               /\ UNCHANGED <<idx, in_set, tokens, warnings>>
          ELSE /\ tokens' = Append(tokens, r.token)
               /\ idx' = r.idx + 1
               /\ in_set' = r.in_set
               /\ warnings' = warnings \o r.warn
               /\ UNCHANGED <<pc, err>>
    /\ UNCHANGED <<input, index, ret>>

\* The loop ends: index = 0.
ScanEnd ==
    /\ pc = "scan"
    /\ idx >= Length(input)
    /\ index' = 0
    /\ pc' = "done"
    /\ UNCHANGED <<input, idx, in_set, tokens, warnings, err, ret>>

----------------------------------------------------------------------------
(* The cursor: get_type, advance, get_character, get_repeat_lower/upper *)


\* Scanner::init from the state its loop is in to its end, as a function: the
\* iterations of the loop one after the other, until the input is used up or
\* an exception leaves the function.
RECURSIVE init(_, _, _, _, _)
init(in, i, inset, toks, warns) ==
    IF i >= Length(in)
    THEN [err |-> "", tokens |-> toks, warnings |-> warns]
    ELSE LET r == Dispatch(in, i, inset, toks)
         IN IF r.err # ""
            THEN [err |-> r.err, tokens |-> toks, warnings |-> warns]
            ELSE init(in, r.idx + 1, r.in_set, Append(toks, r.token),
                      warns \o r.warn)

\* The result of a call: the operation, the value returned and whether the
\* call read tokens[] at a position outside 0 .. tokens.size() - 1.
Result(op, val, oob) == [op |-> op, val |-> val, oob |-> oob]

NoResult == Result("none", 0, FALSE)

\* Positions of tokens[] that exist.
InRange(toks, i) == 0 <= i /\ i < Len(toks)

\* get_type with the end test one too early: the last token reads as ERR.
get_typeShort(toks, ix) ==
    IF ix + 1 < Len(toks) THEN toks[ix + 1].type ELSE "ERR"

\* Scanner::get_type()
get_type(toks, ix) == IF ix < Len(toks) THEN toks[ix + 1].type ELSE "ERR"

GetType ==
    /\ pc = "done"
    /\ ret' = Result("get_type", get_type(tokens, index), FALSE)
    /\ UNCHANGED <<input, idx, in_set, tokens, warnings, pc, err, index>>

\* How far past the end of the tokens the model lets advance() move the cursor.
MaxPast == 2

\* Scanner::advance()
Advance ==
    /\ pc = "done"
    /\ index < Len(tokens) + MaxPast
    /\ index' = index + 1
    /\ ret' = Result("advance", 0, FALSE)
    /\ UNCHANGED <<input, idx, in_set, tokens, warnings, pc, err>>

\* Accessor with an assertion that only tests the cursor against the end: a
\* token of the wrong kind hands out its field.
AccessorLax(op, ok, val) ==
    /\ pc = "done"
    /\ IF InRange(tokens, index)
       THEN /\ ret' = Result(op, val, FALSE)
            /\ pc' = pc
       ELSE /\ ret' = Result(op, 0, FALSE)
            /\ pc' = "abort"
    /\ UNCHANGED <<input, idx, in_set, tokens, warnings, err, index>>

\* An accessor guarded by assert(ok): the failed assertion aborts the program
\* before tokens[index] is read.
Accessor(op, ok, val) ==
    /\ pc = "done"
    /\ IF ok
       THEN /\ ret' = Result(op, val, FALSE)
            /\ pc' = pc
       ELSE /\ ret' = Result(op, 0, FALSE)
            /\ pc' = "abort"
    /\ UNCHANGED <<input, idx, in_set, tokens, warnings, err, index>>

\* Scanner::get_repeat_lower()
GetRepeatLower ==
    Accessor("get_repeat_lower", get_type(tokens, index) = "REPEAT",
             tokens[index + 1].repeat_lower)

\* Scanner::get_repeat_upper()
GetRepeatUpper ==
    Accessor("get_repeat_upper", get_type(tokens, index) = "REPEAT",
             tokens[index + 1].repeat_upper)

\* Scanner::get_character()
GetCharacter ==
    Accessor("get_character",
             get_type(tokens, index) \in {"CHARACTER", "CHAR_CLASS"},
             tokens[index + 1].character)

----------------------------------------------------------------------------
(* The lookahead predicates: is_concat and is_char_range *)

\* tokens[i].type: the type of the token when position i exists; reading past
\* the vector is undefined behaviour and may yield any value.
ReadType(toks, i) == IF InRange(toks, i) THEN {toks[i + 1].type} ELSE TokenType

\* The characters an out-of-range read of tokens[i].character may yield: two
\* values, so that both orders of a pair occur.
GarbageChars == {Ord["a"], Ord["z"]}

\* tokens[i].character
ReadChar(toks, i) ==
    IF InRange(toks, i) THEN {toks[i + 1].character} ELSE GarbageChars

\* valid_prev_type without CARET.
valid_prev_typeNoCaret(prev_type) ==
    prev_type \in {"STAR", "PLUS", "QUESTION", "REPEAT", "RIGHT_PAREN", "CHARACTER",
                   "DOLLAR", "WORD_BOUNDARY", "CHAR_CLASS", "RIGHT_BRACKET"}

valid_prev_type(prev_type) ==
    prev_type \in {"STAR", "PLUS", "QUESTION", "REPEAT", "RIGHT_PAREN", "CHARACTER",
                   "CARET", "DOLLAR", "WORD_BOUNDARY", "CHAR_CLASS", "RIGHT_BRACKET"}

invalid_next_type(next_type) ==
    next_type \in {"ALTERNATION", "STAR", "PLUS", "QUESTION", "REPEAT", "RIGHT_PAREN",
                   "RIGHT_BRACKET"}

\* Scanner::is_concat(): tokens[index - 1] is read first, then the cursor is
\* compared with tokens.size().
is_concat(toks, ix) ==
    { Result("is_concat",
             IF ix >= Len(toks) THEN FALSE
             ELSE valid_prev_type(prev_type)
                      /\ ~invalid_next_type(get_type(toks, ix)),
             ~InRange(toks, ix - 1))
      : prev_type \in ReadType(toks, ix - 1) }

IsConcat ==
    /\ pc = "done"
    /\ ret' \in is_concat(tokens, index)
    /\ UNCHANGED <<input, idx, in_set, tokens, warnings, pc, err, index>>

\* size_t arithmetic is modulo 2^64.  TLC's integers have 32 bits, so the
\* model takes the modulus 2^30: every size and index of the model is far
\* below either modulus, so a difference that wraps exceeds every index here
\* exactly as it does in the program.
SizeModulus == 2 ^ 30

\* tokens.size() - k in size_t
SizeMinus(size, k) == (size - k) % SizeModulus

ERR_RANGE == "ERROR: Improperly formed range"
ERR_CLASS_RANGE == "ERROR: Improperly constructed range using char class"

\* RangeOutcome without the comparison of the two end points.
RangeOutcomeUnordered(t0, t2, c0, c2, oob) ==
    IF t0 = "CHARACTER" /\ t2 = "CHARACTER"
    THEN [val |-> TRUE, err |-> "", oob |-> oob]
    ELSE IF t0 \in {"CHARACTER", "CHAR_CLASS"} /\ t2 \in {"CHARACTER", "CHAR_CLASS"}
    THEN [val |-> FALSE, err |-> ERR_CLASS_RANGE, oob |-> oob]
    ELSE [val |-> FALSE, err |-> "", oob |-> oob]

\* What is_char_range does once both end points are read: `val` the value
\* returned, `err` the message of the exception thrown instead.
RangeOutcome(t0, t2, c0, c2, oob) ==
    IF t0 = "CHARACTER" /\ t2 = "CHARACTER"
    THEN IF c0 > c2
         THEN [val |-> FALSE, err |-> ERR_RANGE, oob |-> oob]
         ELSE [val |-> TRUE, err |-> "", oob |-> oob]
    ELSE IF t0 = "CHARACTER" /\ t2 = "CHAR_CLASS"
    THEN [val |-> FALSE, err |-> ERR_CLASS_RANGE, oob |-> oob]
    ELSE IF t0 = "CHAR_CLASS" /\ t2 = "CHARACTER"
    THEN [val |-> FALSE, err |-> ERR_CLASS_RANGE, oob |-> oob]
    ELSE IF t0 = "CHAR_CLASS" /\ t2 = "CHAR_CLASS"
    THEN [val |-> FALSE, err |-> ERR_CLASS_RANGE, oob |-> oob]
    ELSE [val |-> FALSE, err |-> "", oob |-> oob]

\* if (index > tokens.size() - 3) return false;
RangeGuard(toks, ix) == ix > SizeMinus(Len(toks), 3)

\* Scanner::is_char_range(): the outcomes of a call with the cursor at ix.
\* tokens[index + 2] is read only when tokens[index] is CHARACTER or
\* CHAR_CLASS (the && of each test stops at its first false operand).
is_char_range(toks, ix) ==
    IF RangeGuard(toks, ix)
    THEN {[val |-> FALSE, err |-> "", oob |-> FALSE]}
    ELSE UNION {
        IF t1 # "HYPHEN"
        THEN {[val |-> FALSE, err |-> "", oob |-> ~InRange(toks, ix + 1)]}
        ELSE UNION {
            IF t0 \notin {"CHARACTER", "CHAR_CLASS"}
            THEN {[val |-> FALSE, err |-> "",
                   oob |-> ~InRange(toks, ix + 1) \/ ~InRange(toks, ix)]}
            ELSE { RangeOutcome(t0, t2, c0, c2,
                        ~InRange(toks, ix) \/ ~InRange(toks, ix + 2))
                   : <<t2, c0, c2>> \in ReadType(toks, ix + 2)
                         \X ReadChar(toks, ix) \X ReadChar(toks, ix + 2) }
            : t0 \in ReadType(toks, ix) }
        : t1 \in ReadType(toks, ix + 1) }

IsCharRange ==
    /\ pc = "done"
    /\ \E o \in is_char_range(tokens, index) :
        /\ ret' = Result("is_char_range", o.val, o.oob)
        /\ IF o.err # ""
           THEN pc' = "thrown" /\ err' = o.err
           ELSE UNCHANGED <<pc, err>>
    /\ UNCHANGED <<input, idx, in_set, tokens, warnings, index>>

----------------------------------------------------------------------------
(* Specifications *)

\* The strings of at most n characters over an alphabet.
Strings(alphabet, n) == UNION { [1..k -> alphabet] : k \in 0..n }

\* A Scanner right after construction, about to scan one of the patterns.
InitWith(patterns) ==
    /\ input \in patterns
    /\ idx = 0
    /\ in_set = FALSE
    /\ tokens = <<>>
    /\ warnings = <<>>
    /\ pc = "scan"
    /\ err = ""
    /\ index = Uninit
    /\ ret = NoResult

Next ==
    \/ ScanStep
    \/ ScanEnd
    \/ GetType
    \/ Advance
    \/ GetRepeatLower
    \/ GetRepeatUpper
    \/ GetCharacter
    \/ IsConcat
    \/ IsCharRange

\* The codes of a set of characters.
Codes(chars) == { Ord[ch] : ch \in chars }

\* Patterns without backslash, bracket, brace or parenthesis.
MaxLenPlain == 3
PlainAlphabet == Codes({"a", "-", "|", "*", "+", "?", ".", "^", "$"})
InitPlain == InitWith(Strings(PlainAlphabet, MaxLenPlain))
SpecPlain == InitPlain /\ [][Next]_vars

\* Patterns around the repeat quantifier, and the examples the documentation
\* of process_repeat and its callers give.
MaxLenRepeat == 4
RepeatAlphabet == Codes({"{", "}", ",", "0", "3", "?"})
RepeatExamples ==
    { Str(<<"{", "3", ",", " ", "4", "}">>), Str(<<"a", "{", "3">>),
      Str(<<"a", "{", "3", ",">>), Str(<<"a", "{">>),
      Str(<<"a", "{", "3", ",", "4", "}">>), Str(<<"a", "{", "4", ",", "3", "}">>),
      Str(<<"a", "{", "0", ",", "0", "}">>), Str(<<"{", "3", ",", "3", "}", "?">>),
      Str(<<"{", ",", "0", "3", "}">>), Str(<<"{", ",", "3", "0", "}">>),
      Str(<<"{", "3", ",", "a", "}">>),
      Str(<<"{", "0", ",", "3", "}">>), Str(<<"{", "3", ",", "0", "}">>),
      Str(<<"{", "0", ",", "0", "0", "}">>), Str(<<"{", "3", ",", "3", "0", "}">>),
      Str(<<"{", "2", "1", "4", "7", "4", "8", "3", "6", "4", "7", "}">>),
      Str(<<"{", "2", "1", "4", "7", "4", "8", "3", "6", "4", "8", "}">>) }
InitRepeat == InitWith(Strings(RepeatAlphabet, MaxLenRepeat) \cup RepeatExamples)
SpecRepeat == InitRepeat /\ [][Next]_vars

\* Patterns around the bracket set, read back through the cursor.
MaxLenSet == 4
SetAlphabet == Codes({"[", "]", "-", "a", "z", "\\", "d"})
SetExamples ==
    { Str(<<"[", "a", "-", "z", "]">>), Str(<<"[", "z", "-", "a", "]">>),
      Str(<<"[", "\\", "d", "-", "a", "]">>), Str(<<"[", "a", "-", "\\", "d", "]">>),
      Str(<<"[", "\\", "d", "-", "\\", "w", "]">>),
      Str(<<"[", "\\", "d", "-", "^", "]">>), Str(<<"[", "^", "-", "\\", "d", "]">>),
      Str(<<"[", "-", "a", "-", "z", "-", "]">>), Str(<<"[", "a", "-", "\\", "]", "]">>),
      Str(<<"[", "a", "]", "-", "[", "]", "-", "]">>) }
InitSet == InitWith(Strings(SetAlphabet, MaxLenSet) \cup SetExamples)
SpecSet == InitSet /\ [][Next]_vars

\* Patterns around the operators that take a lazy marker.
MaxLenLazy == 4
LazyAlphabet == Codes({"a", "*", "+", "?", "{", "3", "}"})
LazyExamples ==
    { Str(<<"a", "{", "3", ",", "}", "b">>), Str(<<"a", "{", "3", ",", "4", "}">>),
      Str(<<"a", "{", ",", "3", "}", "+">>), Str(<<"[", "*", "]", "a", "*">>),
      Str(<<"[", "a", "{", "3", "}", "]">>), Str(<<"(", "?", ":", "a", ")", "?">>),
      Str(<<"(", "a", "|", "b", ")", "+", "a">>), Str(<<"(", "*", ")">>),
      Str(<<"(", "?", "#", "a", ")", "*">>), Str(<<"a", "{", "0", "}">>),
      Str(<<"a", "*", "{", "3">>), Str(<<"\\", "d", "+", "\\">>) }
InitLazy == InitWith(Strings(LazyAlphabet, MaxLenLazy) \cup LazyExamples)
SpecLazy == InitLazy /\ [][Next]_vars

\* Patterns that produce every kind of token, read back through the cursor.
MaxLenTokens == 3
TokensAlphabet == Codes({"a", "|", "*", "?", "(", ")", "[", "]", "^", "."})
TokensExamples ==
    { Str(<<"a", "{", "3", "}", "b">>), Str(<<"a", "{", "3", ",", "}", "{", "3", "}">>),
      Str(<<"{", "3", ",", "4", "}", "|">>), Str(<<"(", "{", "3", "}", ")">>),
      Str(<<"\\", "b", "a", "\\", "b">>), Str(<<"a", "\\", "b", "*">>),
      Str(<<"[", "a", "-", "z", "]", "+">>), Str(<<"[", "^", "-", "a", "]", "a">>),
      Str(<<"(", "?", ":", "a", ")", "a">>), Str(<<"(", "?", "P", "<", "n", ">", "a", ")">>),
      Str(<<"(", "?", "=", "a", ")", "*">>), Str(<<"a", "$", "a", "+", "$">>),
      Str(<<"\\", "d", "\\", "d", "+">>), Str(<<"a", "+", "+", "a">>) }
InitTokens == InitWith(Strings(TokensAlphabet, MaxLenTokens) \cup TokensExamples)
SpecTokens == InitTokens /\ [][Next]_vars

\* Patterns around the numeric escapes, and patterns that end inside an
\* escape or an extension.
MaxLenEscape == 4
EscapeAlphabet == Codes({"\\", "x", "u", "0", "1", "4", "F"})
EscapeExamples ==
    { Str(<<"\\", "u", "0", "0", "4", "1">>), Str(<<"\\", "u", "0", "0", "4">>),
      Str(<<"\\", "U", "0", "0", "0", "0", "0", "0", "4", "1">>),
      Str(<<"\\", "U", "0", "0", "0", "0", "0", "0", "4">>),
      Str(<<"\\", "U", "0", "0", "0", "0", "0", "0">>), Str(<<"\\", "U", "0", "0">>),
      Str(<<"\\", "U", "0", "0", "0", "0", "0", "1", "4", "1">>), Str(<<"\\", "U">>),
      Str(<<"\\", "x", "4", "a">>), Str(<<"\\", "x", "7", "e">>),
      Str(<<"\\", "x", "7", "E">>), Str(<<"\\", "x", "7", "f">>),
      Str(<<"\\", "x", "2", "0">>), Str(<<"\\", "x", "4", "z">>),
      Str(<<"\\", "8", "1">>), Str(<<"\\", "9", "7", "7">>), Str(<<"\\", "8">>),
      Str(<<"\\", "1", "7", "6">>), Str(<<"\\", "1", "7", "7">>),
      Str(<<"\\", "4", "0">>), Str(<<"\\", "3", "7">>), Str(<<"\\", "4", "8">>),
      Str(<<"[", "\\", "1", "0", "1", "-", "\\", "x", "5", "A", "]">>),
      Str(<<"a", "\\", "1", "0", "1", "1">>),
      Str(<<"(", "?">>), Str(<<"(", "?", "P">>), Str(<<"(", "?", "<">>),
      Str(<<"(", "?", "P", "<">>), Str(<<"(", "?", "P", "<", "a">>),
      Str(<<"(", "?", "P", "<", "a", ">">>), Str(<<"a", "(", "?">>),
      Str(<<"(", "a", ")", "?">>), Str(<<"[", "(", "?">>), Str(<<"(", "?", ":">>),
      Str(<<"[", "a", "\\">>), Str(<<"\\", "U", "0", "0", "0", "1", "0">>) }
InitEscape == InitWith(Strings(EscapeAlphabet, MaxLenEscape) \cup EscapeExamples)
SpecEscape == InitEscape /\ [][Next]_vars

\* Patterns around the extensions (?...
MaxLenExt == 4
ExtAlphabet == Codes({"(", "?", ":", "P", "<", ">", "="})
ExtExamples ==
    { Str(<<"(", "?", ":", "a", "b", ")">>), Str(<<"(", "?", "P", "<", "a", ">", "b", ")">>),
      Str(<<"(", "?", "P", "<", "a", "b", ">", ")">>), Str(<<"(", "?", "P", "<", ">", "a", ")">>),
      Str(<<"(", "?", "P", "<", "a", ">", ">", ")">>), Str(<<"(", "?", "P", "<", "a", "b">>),
      Str(<<"(", "?", "P", "<", "(", "?", ":", ">", "a", ")">>),
      Str(<<"(", "?", "#", "a", ")">>), Str(<<"(", "?", "!", "a", ")">>),
      Str(<<"(", "?", "=", "a", ")">>), Str(<<"(", "?", "<", "!", "a", ")">>),
      Str(<<"(", "?", "<", "=", "a", ")">>), Str(<<"(", "?", "<", "a", ")">>),
      Str(<<"(", "?", "P", "a", ")">>), Str(<<"(", "?", "P", "=", "a", ")">>),
      Str(<<"(", "?", "a", ")">>), Str(<<"(", "?", ")">>), Str(<<"(", "?", "*", ")">>),
      Str(<<"a", "(", "?", "!", "(", "?", "#", "b", ")", ")">>),
      Str(<<"[", "(", "?", ":", "]">>), Str(<<"a", "?", ":">>) }
InitExt == InitWith(Strings(ExtAlphabet, MaxLenExt) \cup ExtExamples)
SpecExt == InitExt /\ [][Next]_vars

\* Patterns around the parenthesis and the question mark, in and outside a
\* set and after a backslash.
MaxLenGroup == 4
GroupAlphabet == Codes({"(", "?", "[", "]", "\\", ":", "a"})
GroupExamples ==
    { Str(<<"\\", "(", "?", ":", "a", ")">>), Str(<<"[", "(", "?", ":", "a", ")", "]">>),
      Str(<<"(", "?", ":", "a", ")", "?">>), Str(<<"(", "?", "P", "<", "a", ">", "a", ")">>),
      Str(<<"(", "?", "=", "a", ")", "?", "?">>), Str(<<"(", "(", "?", "<", "!", "a", ")", ")">>),
      Str(<<"[", "a", "]", "(", "?", "#", "a", ")">>), Str(<<"(", "|", "?", ")">>),
      Str(<<"(", "a", ")", "?", "(", "?", ":", "a", ")">>) }
InitGroup == InitWith(Strings(GroupAlphabet, MaxLenGroup) \cup GroupExamples)
SpecGroup == InitGroup /\ [][Next]_vars

\* Patterns whose scan rolls back, skips ahead or runs through a group name.
\* Scanner::init is one uninterrupted loop: an iteration that can run does
\* run, and so does the exit of the loop.
MaxLenLoop == 4
LoopAlphabet == Codes({"{", "3", "}", "(", "?", "a"})
LoopExamples ==
    { Str(<<"(", "?", "P", "<", "a", "b", ">", "a", ")">>), Str(<<"(", "?", "P", "<", "a", "b">>),
      Str(<<"(", "?", "P", "<", ">">>), Str(<<"a", "{", "3", ",", "4", "}", "?", "a">>),
      Str(<<"a", "{", "3", ",", "a", "}">>), Str(<<"a", "{", ",", "}", "{", "}">>),
      Str(<<"{", "3", ",", " ", "4", "}">>), Str(<<"a", "{", "3", ",">>),
      Str(<<"[", "{", "3", "}", "]", "{", "3", "}">>), Str(<<"\\", "1", "0", "1", "*", "?">>),
      Str(<<"\\", "U", "0", "0", "0", "0", "0", "0", "4", "1", "+">>),
      Str(<<"(", "?", "<", "=", "a", ")", "|", "\\", "d">>) }
InitLoop == InitWith(Strings(LoopAlphabet, MaxLenLoop) \cup LoopExamples)
SpecLoop ==
    InitLoop /\ [][Next]_vars /\ WF_vars(ScanStep) /\ WF_vars(ScanEnd)

----------------------------------------------------------------------------
(* Properties *)

\* The type and character of each token, in order.
Shape(toks) == [k \in 1..Len(toks) |-> <<toks[k].type, toks[k].character>>]

\* The main loop is at a '{' outside a set: its next iteration calls
\* process_repeat.
AtBrace ==
    /\ pc = "scan"
    /\ idx < Length(input)
    /\ At(input, idx) = Ord["{"]
    /\ ~in_set

\* This step appended one token of the given type and character and left
\* the scan running.
Emitted(type, c) ==
    /\ pc' = "scan"
    /\ Len(tokens') = Len(tokens) + 1
    /\ SubSeq(tokens', 1, Len(tokens)) = tokens
    /\ tokens'[Len(tokens')].type = type
    /\ tokens'[Len(tokens')].character = c

\* The text after the '{' at position i runs to the end of the input inside
\* the quantifier: digits, with at most one comma among them, and no '}'.
CutShort(in, i) ==
    /\ \A k \in (i + 1)..(Length(in) - 1) : isdigit(At(in, k)) \/ At(in, k) = Ord[","]
    /\ Cardinality({k \in (i + 1)..(Length(in) - 1) : At(in, k) = Ord[","]}) <= 1

\* C1: when process_repeat reaches the end of the input inside a quantifier
\* outside a set (a{3  a{3,  a{), no error is raised: the iteration emits
\* CHARACTER '{' and the scan goes on at the character after the '{'.
C1_CutShortRollsBack ==
    [][(AtBrace /\ CutShort(input, idx))
          => (Emitted("CHARACTER", Ord["{"]) /\ idx' = idx + 1)]_vars

\* No backslash, bracket, brace or parenthesis occurs in the pattern.
Plain(in) ==
    \A k \in 1..Len(in) :
        in[k] \notin Codes({"\\", "[", "]", "{", "}", "(", ")"})

\* Nor any of the characters that the switch of Scanner::init turns into an
\* operator, class or anchor token outside a set.
NoOperator(in) ==
    \A k \in 1..Len(in) :
        in[k] \notin Codes({"|", "*", "+", "?", ".", "^", "$"})

\* One CHARACTER token per input character, carrying that character.
OneCharacterEach ==
    /\ Len(tokens) = Len(input)
    /\ \A k \in 1..Len(input) :
        tokens[k].type = "CHARACTER" /\ tokens[k].character = input[k]

\* C2 as stated: for every pattern without backslash, bracket, brace and
\* parenthesis, the finished scan holds exactly one CHARACTER token per input
\* character, carrying that character.
C2_PlainAllCharacters == (pc = "done" /\ Plain(input)) => OneCharacterEach

\* C2 amended: the same for every pattern that, besides, contains none of
\* | * + ? . ^ $.
C2_LiteralAllCharacters ==
    (pc = "done" /\ Plain(input) /\ NoOperator(input)) => OneCharacterEach

C2_Witness ==
    /\ pc = "done"
    /\ input = Str(<<"a", "-", "a">>)
    /\ OneCharacterEach

\* C3: on a pattern without backslash, bracket, brace and parenthesis
\* Scanner::init raises no EgretException and stays inside the input until
\* the loop ends.
C3_PlainScanTotal ==
    Plain(input) => (pc # "error" /\ (pc = "scan" => idx <= Length(input)))

C3_Witness ==
    /\ pc = "done"
    /\ input = Str(<<"?", "*", "?">>)
    /\ Len(tokens) = 2

\* The last call was is_char_range, made with the cursor at `index`.
CalledCharRange == pc \in {"done", "thrown"} /\ ret.op = "is_char_range"

\* C4: whenever position index + 1 or index + 2 does not exist, on streams of
\* any length, is_char_range returns false and reads no token outside the
\* stream.
C4_CharRangeGuarded ==
    (CalledCharRange /\ index + 2 >= Len(tokens))
        => (pc = "done" /\ ret.val = FALSE /\ ~ret.oob)

\* C5: with the cursor at or past the end, is_concat returns false and reads
\* no token outside the stream.
C5_ConcatGuarded ==
    (pc = "done" /\ ret.op = "is_concat" /\ index >= Len(tokens))
        => (ret.val = FALSE /\ ~ret.oob)

\* The tokens at the cursor, after it and two after it, when all three exist.
HasThree == index + 2 < Len(tokens)
Low == tokens[index + 1]
Mid == tokens[index + 2]
High == tokens[index + 3]

\* C8: whenever the token after the cursor is HYPHEN and the token at the
\* cursor or the one two after it is CHAR_CLASS, is_char_range raises an
\* error, whatever the other end point is.
C8_ClassEndpointRaises ==
    (CalledCharRange /\ HasThree /\ Mid.type = "HYPHEN"
        /\ (Low.type = "CHAR_CLASS" \/ High.type = "CHAR_CLASS"))
        => (pc = "thrown" /\ err = ERR_CLASS_RANGE)

\* C9: with the three positions present, is_char_range returns true iff the
\* middle token is HYPHEN, both end points are CHARACTER and the low
\* character is <= the high one; with CHARACTER end points around a HYPHEN in
\* the wrong order it raises the 'improperly formed range' error.
C9_CharRangeIff ==
    (CalledCharRange /\ HasThree)
        => LET ends == Mid.type = "HYPHEN" /\ Low.type = "CHARACTER"
                           /\ High.type = "CHARACTER"
           IN /\ (pc = "done" /\ ret.val = TRUE)
                    <=> (ends /\ Low.character <= High.character)
              /\ (ends /\ Low.character > High.character)
                    => (pc = "thrown" /\ err = ERR_RANGE)
              /\ ~ret.oob

C9_Witness ==
    /\ CalledCharRange
    /\ input = Str(<<"[", "a", "-", "z", "]">>)
    /\ index = 1
    /\ pc = "done"
    /\ ret.val = TRUE

\* Positions a .. b of the input are digits, and there is at least one.
Digits(in, a, b) == a <= b /\ \A j \in a..b : isdigit(At(in, j))

\* The number the digits at positions a .. b of the input denote.
RECURSIVE Value(_, _, _)
Value(in, a, b) ==
    IF b < a THEN 0 ELSE Value(in, a, b - 1) * 10 + (At(in, b) - Ord["0"])

\* The text {,m} starts at position i and its '}' is at position k.
UpperOnlyForm(in, i, k) ==
    /\ k < Length(in)
    /\ At(in, i) = Ord["{"]
    /\ i + 1 < k
    /\ At(in, i + 1) = Ord[","]
    /\ Digits(in, i + 2, k - 1)
    /\ At(in, k) = Ord["}"]

\* The text {n,} starts at position i.
LowerOnlyForm(in, i) ==
    \E k \in (i + 2)..(Length(in) - 2) :
        /\ At(in, i) = Ord["{"]
        /\ Digits(in, i + 1, k - 1)
        /\ At(in, k) = Ord[","]
        /\ At(in, k + 1) = Ord["}"]

\* This step appended a REPEAT token with the given bounds.
EmittedRepeat(lower, upper) ==
    /\ pc' = "scan"
    /\ Len(tokens') = Len(tokens) + 1
    /\ SubSeq(tokens', 1, Len(tokens)) = tokens
    /\ tokens'[Len(tokens')].type = "REPEAT"
    /\ tokens'[Len(tokens')].repeat_lower = lower
    /\ tokens'[Len(tokens')].repeat_upper = upper

\* C6 as stated: for every m >= 0 written with one or more digits, {,m}
\* outside a set yields a REPEAT token with lower 0 and upper m.
C6_UpperOnlyRepeat ==
    [][\A k \in 0..Len(input) :
          (AtBrace /\ UpperOnlyForm(input, idx, k))
              => EmittedRepeat(0, Value(input, idx + 2, k - 1))]_vars

\* C6 amended: the same for m >= 1; {,m} with m = 0 aborts the scan with the
\* 'pointless repeat quantifier' error.
C6_UpperOnlyRepeatPositive ==
    [][\A k \in 0..Len(input) :
          (AtBrace /\ UpperOnlyForm(input, idx, k))
              => IF Value(input, idx + 2, k - 1) >= 1
                 THEN EmittedRepeat(0, Value(input, idx + 2, k - 1))
                 ELSE /\ pc' = "error"
                      /\ err' = "ERROR: pointless repeat quantifier {0,0}"
                      /\ tokens' = tokens]_vars

C6_Witness ==
    /\ pc = "done"
    /\ input = Str(<<"{", ",", "3", "0", "}">>)
    /\ Len(tokens) = 1
    /\ tokens[1].type = "REPEAT"
    /\ tokens[1].repeat_lower = 0
    /\ tokens[1].repeat_upper = 30

\* The last call was the given accessor and it returned.
Got(op) == pc = "done" /\ ret.op = op

\* C7 as stated: after a successful scan get_repeat_lower returns a value
\* >= 0, and neither get_repeat_lower nor get_repeat_upper returns -1.
C7_NoSentinelReturned ==
    /\ Got("get_repeat_lower") => ret.val >= 0
    /\ Got("get_repeat_upper") => ret.val # -1

\* C7 amended: get_repeat_lower returns a value >= 0; get_repeat_upper
\* returns -1 or a value >= 1 that is not below the lower bound; and a REPEAT
\* token gets the upper bound -1 exactly when its quantifier is written {n,}.
C7_SentinelOnlyUnbounded ==
    /\ [](/\ Got("get_repeat_lower") => ret.val >= 0
          /\ Got("get_repeat_upper")
                => \/ ret.val = -1
                   \/ ret.val >= 1 /\ ret.val >= tokens[index + 1].repeat_lower)
    /\ [][(AtBrace /\ pc' = "scan")
            => LET t == tokens'[Len(tokens')]
               IN (t.type = "REPEAT" /\ t.repeat_upper = -1)
                      <=> LowerOnlyForm(input, idx)]_vars

C7_Witness ==
    /\ Got("get_repeat_upper")
    /\ ret.val = -1
    /\ input = Str(<<"{", "3", ",", "}">>)

\* Position k is the first position after a that holds no digit.
StopsAt(in, a, k) ==
    /\ a <= k
    /\ k < Length(in)
    /\ ~isdigit(At(in, k))
    /\ \A j \in a..(k - 1) : isdigit(At(in, j))

\* The '{' at position i does not start a well-formed quantifier: the digit
\* run after it stops at a character other than ',' and '}', or the text is
\* {} or {,}, or the digit run after the comma stops at a character other
\* than '}'.
IllFormed(in, i) ==
    \E k \in (i + 1)..(Length(in) - 1) :
        /\ StopsAt(in, i + 1, k)
        /\ \/ At(in, k) \notin {Ord[","], Ord["}"]}
           \/ At(in, k) = Ord["}"] /\ k = i + 1
           \/ /\ At(in, k) = Ord[","]
              /\ \E m \in (k + 1)..(Length(in) - 1) :
                    /\ StopsAt(in, k + 1, m)
                    /\ \/ At(in, m) # Ord["}"]
                       \/ k = i + 1 /\ m = k + 1

\* C10: at a '{' outside a set that starts no well-formed quantifier the
\* iteration emits CHARACTER '{' and leaves the scan index right after the
\* '{', so a following '?' is not skipped and every later character is
\* tokenized in its turn; the scan of {3, 4} ends with one CHARACTER token
\* for each of its six characters.
C10_IllFormedIsLiteral ==
    /\ [][(AtBrace /\ IllFormed(input, idx))
            => (/\ Emitted("CHARACTER", Ord["{"])
                /\ idx' = idx + 1
                /\ in_set' = in_set
                /\ process_repeat(input, idx).idx = idx)]_vars
    /\ []((pc = "done" /\ input = Str(<<"{", "3", ",", " ", "4", "}">>))
            => Shape(tokens) = [k \in 1..6 |-> <<"CHARACTER", input[k]>>])
    /\ []((pc = "done" /\ Len(input) = 2 /\ input[1] = Ord["{"]
              /\ input[2] = Ord["?"])
            => Shape(tokens) = << <<"CHARACTER", Ord["{"]>>, <<"QUESTION", Uninit>> >>)

C10_Witness ==
    /\ pc = "done"
    /\ input = Str(<<"{", "3", ",", " ", "4", "}">>)
    /\ Len(tokens) = 6

----------------------------------------------------------------------------
(* Quantifier bounds *)

\* The digits at positions a .. b of the input without their leading zeros:
\* the canonical numeral of the number they denote, empty for zero.
Numeral(in, a, b) ==
    LET nz == {k \in a..b : At(in, k) # Ord["0"]}
    IN IF nz = {} THEN <<>>
       ELSE LET first == CHOOSE k \in nz : \A j \in nz : k <= j
            IN [j \in 1..(b - first + 1) |-> At(in, first + j - 1)]

\* The canonical numeral of a non-negative int.
RECURSIVE NumeralOf(_)
NumeralOf(v) ==
    IF v = 0 THEN <<>> ELSE Append(NumeralOf(v \div 10), Ord["0"] + (v % 10))

\* The number of numeral s is at most the number of numeral t.
NumeralLeq(s, t) ==
    \/ Len(s) < Len(t)
    \/ /\ Len(s) = Len(t)
       /\ \/ s = t
          \/ \E k \in 1..Len(s) :
                /\ s[k] < t[k]
                /\ \A j \in 1..(k - 1) : s[j] = t[j]

\* The text {n} starts at position i and its '}' is at position k.
ExactForm(in, i, k) ==
    /\ k < Length(in)
    /\ At(in, i) = Ord["{"]
    /\ Digits(in, i + 1, k - 1)
    /\ At(in, k) = Ord["}"]

\* The text {n,m} starts at position i, with its ',' at position c and its
\* '}' at position k.
BoundsForm(in, i, c, k) ==
    /\ k < Length(in)
    /\ c < k
    /\ At(in, i) = Ord["{"]
    /\ Digits(in, i + 1, c - 1)
    /\ At(in, c) = Ord[","]
    /\ Digits(in, c + 1, k - 1)
    /\ At(in, k) = Ord["}"]

\* This step appended a REPEAT token whose bounds are the numbers of the
\* given numerals.
EmittedRepeatOf(lower, upper) ==
    /\ pc' = "scan"
    /\ Len(tokens') = Len(tokens) + 1
    /\ SubSeq(tokens', 1, Len(tokens)) = tokens
    /\ tokens'[Len(tokens')].type = "REPEAT"
    /\ tokens'[Len(tokens')].repeat_lower >= 0
    /\ tokens'[Len(tokens')].repeat_upper >= 0
    /\ NumeralOf(tokens'[Len(tokens')].repeat_lower) = lower
    /\ NumeralOf(tokens'[Len(tokens')].repeat_upper) = upper

\* This step left Scanner::init with an EgretException.
Aborted == pc' = "error" /\ err' # "" /\ tokens' = tokens

\* C11: outside a set, {n} yields a REPEAT token with lower = upper = n when
\* n >= 1 and aborts the scan when n = 0; {n,m} yields a REPEAT token with
\* lower n and upper m when n <= m and m >= 1, and aborts the scan when
\* n > m or n = m = 0.
C11_QuantifierBounds ==
    [][\A c, k \in 0..Len(input) :
          /\ (AtBrace /\ ExactForm(input, idx, k))
                => LET n == Numeral(input, idx + 1, k - 1)
                   IN IF n # <<>> THEN EmittedRepeatOf(n, n) ELSE Aborted
          /\ (AtBrace /\ BoundsForm(input, idx, c, k))
                => LET n == Numeral(input, idx + 1, c - 1)
                       m == Numeral(input, c + 1, k - 1)
                   IN IF NumeralLeq(n, m) /\ m # <<>>
                      THEN EmittedRepeatOf(n, m)
                      ELSE Aborted]_vars

\* The same for the quantifiers whose numbers an int holds.
FitsInt(numeral) == NumeralLeq(numeral, NumeralOf(INT_MAX))

C11_QuantifierBoundsInt ==
    [][\A c, k \in 0..Len(input) :
          /\ (AtBrace /\ ExactForm(input, idx, k)
                /\ FitsInt(Numeral(input, idx + 1, k - 1)))
                => LET n == Numeral(input, idx + 1, k - 1)
                   IN IF n # <<>> THEN EmittedRepeatOf(n, n) ELSE Aborted
          /\ (AtBrace /\ BoundsForm(input, idx, c, k)
                /\ FitsInt(Numeral(input, idx + 1, c - 1))
                /\ FitsInt(Numeral(input, c + 1, k - 1)))
                => LET n == Numeral(input, idx + 1, c - 1)
                       m == Numeral(input, c + 1, k - 1)
                   IN IF NumeralLeq(n, m) /\ m # <<>>
                      THEN EmittedRepeatOf(n, m)
                      ELSE Aborted]_vars

----------------------------------------------------------------------------
(* Lazy markers *)

\* The pattern with character c inserted so that it stands at position p.
Insert(in, p, c) == SubSeq(in, 1, p) \o <<c>> \o SubSeq(in, p + 1, Len(in))

\* The position of the first '}' after position i.
ClosingBrace(in, i) ==
    CHOOSE k \in (i + 1)..(Length(in) - 1) :
        /\ At(in, k) = Ord["}"]
        /\ \A j \in (i + 1)..(k - 1) : At(in, j) # Ord["}"]

\* The main loop is at an occurrence, outside a set, of '*', '+', an
\* operator '?' or a '{' that process_repeat parses into a REPEAT token.
AtLazyHost ==
    /\ pc = "scan"
    /\ idx < Length(input)
    /\ ~in_set
    /\ \/ At(input, idx) \in {Ord["*"], Ord["+"]}
       \/ /\ At(input, idx) = Ord["?"]
          /\ (tokens = <<>> \/ tokens[Len(tokens)].type # "LEFT_PAREN")
       \/ /\ At(input, idx) = Ord["{"]
          /\ LET r == process_repeat(input, idx)
             IN r.err = "" /\ r.token.type = "REPEAT"

\* The position of the last character of that occurrence.
HostEnd ==
    IF At(input, idx) = Ord["{"] THEN ClosingBrace(input, idx) ELSE idx

\* The occurrence is already followed by a '?'.
FollowedByMarker ==
    HostEnd + 1 < Length(input) /\ At(input, HostEnd + 1) = Ord["?"]

\* C12: for every occurrence outside a set of '*', '+', an operator '?' or a
\* successfully parsed quantifier that is not already followed by '?', the
\* scan of the pattern with a '?' inserted right after the occurrence ends
\* with the same tokens, the same warnings and the same outcome as the scan
\* of the pattern itself.
C12_LazyMarkerErased ==
    (AtLazyHost /\ ~FollowedByMarker)
        => init(Insert(input, HostEnd + 1, Ord["?"]), 0, FALSE, <<>>, <<>>)
              = init(input, idx, in_set, tokens, warnings)

C12_Witness ==
    /\ input = Str(<<"a", "*">>)
    /\ AtLazyHost
    /\ ~FollowedByMarker
    /\ init(Str(<<"a", "*", "?">>), 0, FALSE, <<>>, <<>>).tokens
          = <<CharTok("CHARACTER", Ord["a"]), Tok("STAR")>>

----------------------------------------------------------------------------
(* The cursor API *)

\* The kinds after which, and the kinds before which, a concatenation can
\* not stand.
ConcatLeft ==
    {"STAR", "PLUS", "QUESTION", "REPEAT", "RIGHT_PAREN", "CHARACTER", "CARET",
     "DOLLAR", "WORD_BOUNDARY", "CHAR_CLASS", "RIGHT_BRACKET"}
NoConcatRight ==
    {"ALTERNATION", "STAR", "PLUS", "QUESTION", "REPEAT", "RIGHT_PAREN",
     "RIGHT_BRACKET"}

\* C13: with the cursor at a position i, 1 <= i < size, is_concat returns
\* true iff the kind of token i - 1 is in ConcatLeft and the kind of token i
\* is not in NoConcatRight.
C13_ConcatIff ==
    (Got("is_concat") /\ 1 <= index /\ index < Len(tokens))
        => (ret.val <=> (/\ tokens[index].type \in ConcatLeft
                         /\ tokens[index + 1].type \notin NoConcatRight))

C13_Witness ==
    /\ Got("is_concat")
    /\ input = Str(<<"a", "{", "3", "}", "b">>)
    /\ index = 2
    /\ tokens[index].type = "REPEAT"
    /\ tokens[index + 1].type = "CHARACTER"
    /\ ret.val = TRUE


\* C14: a successful scan leaves the cursor at 0; afterwards no call changes
\* the tokens, only advance changes the cursor and each advance adds exactly
\* 1 to it (so the cursor is the number of calls of advance); and get_type
\* returns the kind of the token at the cursor when the cursor is below the
\* number of tokens and ERR otherwise, without reading outside the tokens.
C14_CursorWalk ==
    /\ [][(pc = "scan" /\ pc' = "done") => index' = 0]_vars
    /\ [][pc = "done"
            => /\ tokens' = tokens
               /\ IF ret'.op = "advance"
                  THEN index' = index + 1
                  ELSE index' = index]_vars
    /\ [](Got("get_type")
            => /\ index >= 0
               /\ ret.val = IF index < Len(tokens)
                            THEN tokens[index + 1].type
                            ELSE "ERR"
               /\ ~ret.oob)

C14_Witness ==
    /\ Got("get_type")
    /\ input = Str(<<"a", "*">>)
    /\ index = 1
    /\ ret.val = "STAR"


\* The last call was one of the three accessors, and it returned or aborted.
AccessorCalled ==
    /\ ret.op \in {"get_character", "get_repeat_lower", "get_repeat_upper"}
    /\ pc \in {"done", "abort"}

\* The kinds of token the accessor called last is for.
AccessorKinds ==
    IF ret.op = "get_character" THEN {"CHARACTER", "CHAR_CLASS"} ELSE {"REPEAT"}

\* The field of the token at the cursor that the accessor called last reads.
AccessorField ==
    CASE ret.op = "get_character" -> tokens[index + 1].character
      [] ret.op = "get_repeat_lower" -> tokens[index + 1].repeat_lower
      [] ret.op = "get_repeat_upper" -> tokens[index + 1].repeat_upper

\* C15: get_character returns only with a CHARACTER or CHAR_CLASS token at
\* the cursor, get_repeat_lower and get_repeat_upper only with a REPEAT token
\* there, and what they return is that token's field; in every other state,
\* the cursor at or past the end included, the call ends the program on the
\* failed assertion and has read no position outside the tokens.
C15_AccessorsAssert ==
    AccessorCalled
        => /\ pc = "done"
                <=> /\ 0 <= index
                    /\ index < Len(tokens)
                    /\ tokens[index + 1].type \in AccessorKinds
           /\ pc = "done" => ret.val = AccessorField
           /\ ~ret.oob

C15_Witness ==
    /\ AccessorCalled
    /\ ret.op = "get_repeat_upper"
    /\ pc = "abort"
    /\ index = Len(tokens)
    /\ \E k \in 1..Len(tokens) : tokens[k].type = "REPEAT"

----------------------------------------------------------------------------
(* Escapes *)

\* The main loop is at a backslash that is not the last character.
AtEscape ==
    /\ pc = "scan"
    /\ idx + 1 < Length(input)
    /\ At(input, idx) = Ord["\\"]

IsOctalNumeral(c) == c \in Ord["0"]..Ord["7"]
IsHexNumeral(c) == c \in (Ord["0"]..Ord["9"]) \cup (Ord["A"]..Ord["F"]) \cup (Ord["a"]..Ord["f"])

\* The value of a hex numeral: the letters, in either case, count from ten.
HexValue(c) == IF c <= Ord["9"] THEN c - Ord["0"] ELSE (c % 32) + 9

\* An octal escape stands at position i: a digit and an octal digit follow
\* the backslash.  `OctalThree` tells that a third octal digit follows them.
OctalEscape(in, i) ==
    /\ i + 2 < Length(in)
    /\ isdigit(At(in, i + 1))
    /\ IsOctalNumeral(At(in, i + 2))
OctalThree(in, i) == i + 3 < Length(in) /\ IsOctalNumeral(At(in, i + 3))
OctalValue(in, i) ==
    IF OctalThree(in, i)
    THEN 64 * (At(in, i + 1) - Ord["0"]) + 8 * (At(in, i + 2) - Ord["0"])
            + (At(in, i + 3) - Ord["0"])
    ELSE 8 * (At(in, i + 1) - Ord["0"]) + (At(in, i + 2) - Ord["0"])

\* The number of leading zeros \x, \u and \U require before the two digits.
HexZeros(c) ==
    CASE c = Ord["x"] -> 0 [] c = Ord["u"] -> 2 [] c = Ord["U"] -> 6

\* A hex escape \xHH, \u00HH or \U000000HH stands at position i.
HexEscape(in, i) ==
    /\ At(in, i + 1) \in {Ord["x"], Ord["u"], Ord["U"]}
    /\ LET z == HexZeros(At(in, i + 1))
       IN /\ i + 3 + z < Length(in)
          /\ \A j \in (i + 2)..(i + 1 + z) : At(in, j) = Ord["0"]
          /\ IsHexNumeral(At(in, i + 2 + z))
          /\ IsHexNumeral(At(in, i + 3 + z))
HexEscapeValue(in, i) ==
    LET z == HexZeros(At(in, i + 1))
    IN 16 * HexValue(At(in, i + 2 + z)) + HexValue(At(in, i + 3 + z))

\* The step emits CHARACTER v and resumes at position `next` when v is in
\* 32 .. 126, and aborts the scan otherwise.
DecodesTo(v, next) ==
    IF 32 <= v /\ v <= 126
    THEN Emitted("CHARACTER", v) /\ idx' = next
    ELSE Aborted

\* C16: a numeric escape yields exactly one CHARACTER token whose code is the
\* value of its digits -- base 8 over the two or three digits of an octal
\* escape, base 16 over the last two digits of \xHH, \u00HH, \U000000HH --
\* when that value is in 32 .. 126, and aborts the scan when it is not.
C16_NumericEscape ==
    [][/\ (AtEscape /\ OctalEscape(input, idx))
            => DecodesTo(OctalValue(input, idx),
                         IF OctalThree(input, idx) THEN idx + 4 ELSE idx + 3)
       /\ (AtEscape /\ HexEscape(input, idx))
            => DecodesTo(HexEscapeValue(input, idx),
                         idx + 4 + HexZeros(At(input, idx + 1)))]_vars

C16_Witness ==
    /\ pc = "done"
    /\ input = Str(<<"\\", "x", "4", "1">>)
    /\ Shape(tokens) = <<<<"CHARACTER", Ord["A"]>>>>


\* The main loop is at a backslash that is the last character.
AtTrailingBackslash ==
    /\ pc = "scan"
    /\ idx = Length(input) - 1
    /\ At(input, idx) = Ord["\\"]

\* The main loop is at \x, \u or \U and the input ends before the last of
\* the characters the escape requires.
AtHexCutShort ==
    /\ AtEscape
    /\ At(input, idx + 1) \in {Ord["x"], Ord["u"], Ord["U"]}
    /\ Length(input) < idx + 4 + HexZeros(At(input, idx + 1))

\* Each of the leading digits of the \u or \U at idx that the input holds
\* is 0.
LeadingZerosSoFar ==
    \A j \in (idx + 2)..(idx + 1 + HexZeros(At(input, idx + 1))) :
        j < Length(input) => At(input, j) = Ord["0"]

\* The main loop is at the '?' of an extension: the last token is LEFT_PAREN.
AtExtension ==
    /\ pc = "scan"
    /\ idx < Length(input)
    /\ At(input, idx) = Ord["?"]
    /\ tokens # <<>>
    /\ tokens[Len(tokens)].type = "LEFT_PAREN"

\* The input ends with the header (?, (?P or (?< of that extension.
AtHeaderCutShort ==
    /\ AtExtension
    /\ \/ idx = Length(input) - 1
       \/ /\ idx + 1 = Length(input) - 1
          /\ At(input, idx + 1) \in {Ord["P"], Ord["<"]}

\* The extension is a named group (?P< and no '>' follows.
AtNameCutShort ==
    /\ AtExtension
    /\ idx + 2 < Length(input)
    /\ At(input, idx + 1) = Ord["P"]
    /\ At(input, idx + 2) = Ord["<"]
    /\ \A j \in (idx + 3)..(Length(input) - 1) : At(input, j) # Ord[">"]

\* This step left Scanner::init with the exception of get_next_char.
EndedPrematurely == pc' = "error" /\ err' = ERR_PREMATURE /\ tokens' = tokens

\* No iteration of the main loop starts, and none ends, beyond the end of the
\* input: every character the scan has consumed is a character of the input.
WithinInput == pc \in {"scan", "error"} => idx <= Length(input)

\* C17 as stated: a pattern that ends in the middle of an escape, of a hex
\* escape, of an extension header or of a named group aborts the scan with
\* 'Input string ended prematurely', and the scan stays within the input.
C17_CutShortEndsPrematurely ==
    /\ [][(\/ AtTrailingBackslash
           \/ AtHexCutShort
           \/ AtHeaderCutShort
           \/ AtNameCutShort) => EndedPrematurely]_vars
    /\ []WithinInput

\* C17 amended: the same, where of a \u or \U cut short every leading digit
\* the input holds is 0; with a leading digit other than 0 the scan aborts
\* with the 'Unsupported hex number' error.
C17_CutShortAfterZeros ==
    /\ [][/\ (\/ AtTrailingBackslash
              \/ AtHexCutShort /\ LeadingZerosSoFar
              \/ AtHeaderCutShort
              \/ AtNameCutShort) => EndedPrematurely
          /\ (AtHexCutShort /\ ~LeadingZerosSoFar)
                => /\ pc' = "error"
                   /\ err' = "ERROR: Unsupported hex number"
                   /\ tokens' = tokens]_vars
    /\ []WithinInput

C17_Witness ==
    /\ pc = "error"
    /\ err = ERR_PREMATURE
    /\ input = Str(<<"\\", "u", "0", "0", "4">>)
    /\ idx = 0
    /\ tokens = <<>>

----------------------------------------------------------------------------
(* Extensions *)

\* This step appended one token of the given kind, added `added` warnings
\* and resumes the scan at position `next`.
EmittedExt(type, added, next) ==
    /\ pc' = "scan"
    /\ Len(tokens') = Len(tokens) + 1
    /\ SubSeq(tokens', 1, Len(tokens)) = tokens
    /\ tokens'[Len(tokens')].type = type
    /\ Len(warnings') = Len(warnings) + added
    /\ SubSeq(warnings', 1, Len(warnings)) = warnings
    /\ idx' = next

\* The character at offset k after the '?' the main loop is at, -1 when the
\* input ends before it.
After(k) == IF idx + k < Length(input) THEN At(input, idx + k) ELSE -1

\* The positions of the '>' after the "(?P<" whose '?' the main loop is at.
NameClosers ==
    {j \in (idx + 3)..(Length(input) - 1) : At(input, j) = Ord[">"]}

\* C18: after "(?" the scan emits exactly one token or aborts: ':' gives
\* NO_GROUP_EXT; "P<" gives NAMED_GROUP_EXT and the scan resumes after the
\* first '>' that follows; '#', '=', '!', "<=" and "<!" give IGNORED_EXT and
\* one more warning; "P=", 'P' before anything but '<', '<' before anything
\* but '=' and '!', and every other character abort the scan.
C18_ExtensionToken ==
    [][(AtExtension /\ idx + 1 < Length(input))
          => /\ After(1) = Ord[":"] => EmittedExt("NO_GROUP_EXT", 0, idx + 2)
             /\ (After(1) = Ord["P"] /\ After(2) = Ord["<"] /\ NameClosers # {})
                   => \E g \in NameClosers :
                         /\ \A j \in NameClosers : g <= j
                         /\ EmittedExt("NAMED_GROUP_EXT", 0, g + 1)
             /\ After(1) \in {Ord["#"], Ord["="], Ord["!"]}
                   => EmittedExt("IGNORED_EXT", 1, idx + 2)
             /\ (After(1) = Ord["<"] /\ After(2) \in {Ord["="], Ord["!"]})
                   => EmittedExt("IGNORED_EXT", 1, idx + 3)
             /\ (After(1) = Ord["P"] /\ After(2) # Ord["<"]) => Aborted
             /\ (After(1) = Ord["<"] /\ After(2) \notin {Ord["="], Ord["!"]})
                   => Aborted
             /\ After(1) \notin {Ord[":"], Ord["P"], Ord["#"], Ord["="],
                                  Ord["!"], Ord["<"]} => Aborted]_vars

C18_Witness ==
    /\ pc = "done"
    /\ input = Str(<<"(", "?", ":", "a", "b", ")">>)
    /\ Shape(tokens) = << <<"LEFT_PAREN", Uninit>>, <<"NO_GROUP_EXT", Uninit>>,
                          <<"CHARACTER", Ord["a"]>>, <<"CHARACTER", Ord["b"]>>,
                          <<"RIGHT_PAREN", Uninit>> >>

----------------------------------------------------------------------------
(* Sets *)

\* This step appended one token of the given kind and left the scan running.
EmittedKind(type) ==
    /\ pc' = "scan"
    /\ Len(tokens') = Len(tokens) + 1
    /\ SubSeq(tokens', 1, Len(tokens)) = tokens
    /\ tokens'[Len(tokens')].type = type

\* The main loop is at character c.
AtChar(c) == pc = "scan" /\ idx < Length(input) /\ At(input, idx) = Ord[c]

\* The last token is LEFT_BRACKET.
AfterOpening == tokens # <<>> /\ tokens[Len(tokens)].type = "LEFT_BRACKET"

IsBracket(t) == t.type \in {"LEFT_BRACKET", "RIGHT_BRACKET"}

\* The bracket tokens, in order.
Brackets == SelectSeq(tokens, IsBracket)

\* The bracket tokens alternate, starting with LEFT_BRACKET.
BracketsAlternate ==
    \A k \in 1..Len(Brackets) :
        Brackets[k].type = IF k % 2 = 1 THEN "LEFT_BRACKET" ELSE "RIGHT_BRACKET"

\* The in-set flag tells that the last bracket token is LEFT_BRACKET.
FlagIsLastBracket ==
    in_set <=> (Brackets # <<>> /\ Brackets[Len(Brackets)].type = "LEFT_BRACKET")

NoBackslash(in) == \A k \in 1..Len(in) : in[k] # Ord["\\"]

\* C19: at every point of the scan the in-set flag is true iff the last
\* bracket token emitted is LEFT_BRACKET, and the bracket tokens alternate
\* starting with LEFT_BRACKET; a '[' inside a set and a ']' outside a set or
\* right after the LEFT_BRACKET are CHARACTER tokens, every other '[' is a
\* LEFT_BRACKET and every other ']' a RIGHT_BRACKET; a set that is never
\* closed raises no error (only an escape does).
C19_SetFlag ==
    /\ [](FlagIsLastBracket /\ BracketsAlternate)
    /\ [][/\ AtChar("[")
             => IF in_set THEN Emitted("CHARACTER", Ord["["])
                ELSE EmittedKind("LEFT_BRACKET")
          /\ AtChar("]")
             => IF ~in_set \/ AfterOpening THEN Emitted("CHARACTER", Ord["]"])
                ELSE EmittedKind("RIGHT_BRACKET")]_vars
    /\ [](NoBackslash(input) => pc # "error")

C19_Witness ==
    /\ pc = "done"
    /\ input = Str(<<"[", "]", "[", "a">>)
    /\ in_set
    /\ Shape(tokens) = << <<"LEFT_BRACKET", Uninit>>, <<"CHARACTER", Ord["]"]>>,
                          <<"CHARACTER", Ord["["]>>, <<"CHARACTER", Ord["a"]>> >>

\* The last character of a set: a ']' follows.
BeforeClosing == idx + 1 < Length(input) /\ At(input, idx + 1) = Ord["]"]

\* Token k stands inside a set: a LEFT_BRACKET precedes it with no
\* RIGHT_BRACKET in between.
InsideSet(k) ==
    \E j \in 1..(k - 1) :
        /\ tokens[j].type = "LEFT_BRACKET"
        /\ \A m \in (j + 1)..(k - 1) : tokens[m].type # "RIGHT_BRACKET"

\* C20: a '-' yields HYPHEN when the scan is inside a set, the last token is
\* not LEFT_BRACKET and the next character is not ']', and CHARACTER '-' in
\* every other case; so every HYPHEN token stands inside a set, not right
\* after the LEFT_BRACKET and not right before a RIGHT_BRACKET.
C20_HyphenInSet ==
    /\ [][AtChar("-")
            => IF in_set /\ ~AfterOpening /\ ~BeforeClosing
               THEN EmittedKind("HYPHEN")
               ELSE Emitted("CHARACTER", Ord["-"])]_vars
    /\ [](\A k \in 1..Len(tokens) :
            tokens[k].type = "HYPHEN"
                => /\ InsideSet(k)
                   /\ tokens[k - 1].type # "LEFT_BRACKET"
                   /\ k < Len(tokens) => tokens[k + 1].type # "RIGHT_BRACKET")

C20_Witness ==
    /\ pc = "done"
    /\ input = Str(<<"[", "-", "a", "-", "z", "-", "]">>)
    /\ Shape(tokens) = << <<"LEFT_BRACKET", Uninit>>, <<"CHARACTER", Ord["-"]>>,
                          <<"CHARACTER", Ord["a"]>>, <<"HYPHEN", Uninit>>,
                          <<"CHARACTER", Ord["z"]>>, <<"CHARACTER", Ord["-"]>>,
                          <<"RIGHT_BRACKET", Uninit>> >>

----------------------------------------------------------------------------
(* The question mark *)

ExtensionKinds == {"NO_GROUP_EXT", "NAMED_GROUP_EXT", "IGNORED_EXT"}

\* The last token is LEFT_PAREN.
AfterLeftParen == tokens # <<>> /\ tokens[Len(tokens)].type = "LEFT_PAREN"

\* This step is what the extension processor does: one token of an extension
\* kind, or an exception.
ExtensionOutcome ==
    \/ \E type \in ExtensionKinds : EmittedKind(type)
    \/ Aborted

\* C21: a '?' goes to the extension processor exactly when the last token is
\* LEFT_PAREN, which happens outside a set only; otherwise it is CHARACTER
\* '?' inside a set and QUESTION outside.  So every NO_GROUP_EXT,
\* NAMED_GROUP_EXT and IGNORED_EXT token stands right after a LEFT_PAREN, no
\* QUESTION stands right after a LEFT_PAREN, and the '(' of "\(" and of a set,
\* being a CHARACTER, starts no extension.
C21_ExtensionAfterParen ==
    /\ [][AtChar("?")
            => IF AfterLeftParen THEN ExtensionOutcome
               ELSE IF in_set THEN Emitted("CHARACTER", Ord["?"])
               ELSE EmittedKind("QUESTION")]_vars
    /\ [](AfterLeftParen => ~in_set)
    /\ [](\A k \in 1..Len(tokens) :
            /\ tokens[k].type \in ExtensionKinds
                  => (k > 1 /\ tokens[k - 1].type = "LEFT_PAREN")
            /\ tokens[k].type = "QUESTION"
                  => (k = 1 \/ tokens[k - 1].type # "LEFT_PAREN")
            /\ (tokens[k].type = "CHARACTER" /\ tokens[k].character = Ord["("]
                   /\ k < Len(tokens))
                  => tokens[k + 1].type \notin ExtensionKinds)

C21_Witness ==
    /\ pc = "done"
    /\ input = Str(<<"\\", "(", "?", ":", "a", ")">>)
    /\ Shape(tokens) = << <<"CHARACTER", Ord["("]>>, <<"QUESTION", Uninit>>,
                          <<"CHARACTER", Ord[":"]>>, <<"CHARACTER", Ord["a"]>>,
                          <<"RIGHT_PAREN", Uninit>> >>

----------------------------------------------------------------------------
(* Termination *)

\* The main loop is about to run an iteration.
AtIteration == pc = "scan" /\ idx < Length(input)

\* This step appended exactly one token and left the scan running.
AppendedOne ==
    /\ pc' = "scan"
    /\ Len(tokens') = Len(tokens) + 1
    /\ SubSeq(tokens', 1, Len(tokens)) = tokens

\* The iteration at idx calls process_repeat, which rolls the index back.
RollsBack == AtBrace /\ process_repeat(input, idx).token.type = "CHARACTER"

\* C22: every iteration of the main loop either raises an error or appends
\* exactly one token and leaves idx greater than it was; the number of tokens
\* never exceeds the length of the pattern; and the scan ends, normally or
\* with an error.
C22_ScanTerminates ==
    /\ [][AtIteration => (Aborted \/ (AppendedOne /\ idx' > idx))]_vars
    /\ [](Len(tokens) <= Length(input))
    /\ <>(pc # "scan")

C22_Witness ==
    /\ pc = "done"
    /\ input = Str(<<"a", "{", "3", ",", "a", "}">>)
    /\ Len(tokens) = Len(input)
    /\ tokens[2].type = "CHARACTER"
    /\ tokens[2].character = Ord["{"]

====
